---- MODULE Spec2Model ----
(***************************************************************************)
(* Model of parlai/crowdsourcing/tasks/turn_annotations/worlds.py:         *)
(* the turn-annotations chat world (TurnAnnotationsChatWorld), the         *)
(* onboarding world (TurnAnnotationsOnboardWorld) and the bot assignment   *)
(* of make_world.                                                          *)
(*                                                                         *)
(* Python lists are 0-based; the sequences here are 1-based, so the        *)
(* Python entry dialog[i] is dialog[i + 1] below.  A dict key that the     *)
(* code leaves out of an utterance ('fake_start', 'problem_data') is the   *)
(* value FALSE, respectively NoPD, of a record field.  A text is a         *)
(* sequence of tokens, the break marker '<br>' being one token.            *)
(***************************************************************************)
EXTENDS Integers, Sequences, FiniteSets, TLC

VARIABLES
    \* ---- TurnAnnotationsChatWorld and its opt
    conversation_start_mode,  \* opt['conversation_start_mode']
    include_persona,          \* opt['include_persona']
    num_turns,                \* self.num_turns
    task_turn_idx,            \* self.task_turn_idx
    dialog,                   \* self.dialog
    chat_done,                \* self.chat_done
    agent_obs,                \* messages self.agent.observe() received
    bot_obs,                  \* messages self.bot.observe() received
    chat_pc,                  \* "running", or "raised" once parley raised
    trace,                    \* what the most recent parley call did, in order
    \* ---- TurnAnnotationsOnboardWorld
    onboard_task_data,        \* reference answers, one label list per turn
    min_correct,              \* ONBOARD_CONFIG['min_correct']
    max_incorrect,            \* ONBOARD_CONFIG['max_incorrect']
    status,                   \* self.status
    onboard_pc,               \* position of the onboarding session
    onboard_act,              \* the act parley received
    onboard_log,              \* qualification grants and messages the worker's
                              \* agent observed, in the order they happened
    number_correct,           \* check_onboarding_answers' counter
    number_incorrect,         \* check_onboarding_answers' counter
    \* ---- make_world and the shared statistics
    conversations_needed,     \* opt['conversations_needed']
    run_statistics,           \* opt['run_statistics']
    lock_holder,              \* holder of opt['statistics_condition'], 0 if free
    mw_pc,                    \* position of each make_world call
    mw_remaining,             \* remaining_counts_needed of each call
    mw_model,                 \* model_name of each call
    mw_tmp,                   \* value read by run_statistics[model_name] += 1
    \* ---- has_same_answer applied to two label lists
    ans1, ans2,               \* the two arguments
    same_result,              \* <<>> before the call, <<returned value>> after
    \* ---- the end of a conversation: shutdown and save_data
    check_acceptability,      \* self.check_acceptability
    save_calls,               \* the save_data calls made: the rule set passed to
                              \* the acceptability checker and its report
    block_grants,             \* grants of self.block_qualification
    chat_shutdown,            \* TRUE once shutdown was called
    \* ---- validate_onboarding applied to a message log
    val_messages,             \* data['outputs']['messages']
    val_result,               \* <<>> before the call, <<outcome>> after
    \* ---- the conversations make_world created, up to their shutdown
    conv_pc,                  \* position of each conversation
    sd_tmp,                   \* value read by shutdown's run_statistics[...] += 1
    \* ---- concurrent onboarding sessions, up to their shutdown
    session_status,           \* self.status of each session's onboarding world
    session_act,              \* kind of the act each session's parley received
    session_pc,               \* position of each session
    onboard_statistics,       \* opt['onboard_statistics']: a dict, the function
                              \* whose domain is the keys present
    onboard_statistics_start, \* opt['onboard_statistics'] before any shutdown
    os_tmp                    \* value read by onboard_statistics[...] += 1

chatVars == <<conversation_start_mode, include_persona, num_turns, task_turn_idx,
              dialog, chat_done, agent_obs, bot_obs, chat_pc, trace>>
onboardVars == <<onboard_task_data, min_correct, max_incorrect, status, onboard_pc,
                 onboard_act, onboard_log, number_correct, number_incorrect>>
mwVars == <<conversations_needed, run_statistics, lock_holder, mw_pc, mw_remaining,
            mw_model, mw_tmp>>
sameVars == <<ans1, ans2, same_result>>
finishVars == <<check_acceptability, save_calls, block_grants, chat_shutdown>>
valVars == <<val_messages, val_result>>
sdVars == <<conv_pc, sd_tmp>>
osVars == <<session_status, session_act, session_pc, onboard_statistics,
            onboard_statistics_start, os_tmp>>
vars == <<chatVars, onboardVars, mwVars, sameVars, finishVars, valVars, sdVars, osVars>>

\* ------------------------------------------------------------------ bounds

\* parley is called while task_turn_idx is below this bound
MaxTurnIdx == 4
\* num_turns is drawn from 1..MaxNumTurns
MaxNumTurns == 3
\* the reference dialog of onboarding has 1..MaxRefTurns turns
MaxRefTurns == 2
\* an onboarding submission has 0..MaxSubmitted per-turn selection maps
MaxSubmitted == 2
\* min_correct and max_incorrect are drawn from 0..MaxThreshold
MaxThreshold == 2
\* has_same_answer is applied to label lists of length 0..MaxLabelList
MaxLabelList == 3
\* number of concurrent make_world calls
NumStarts == 3
\* conversations_needed[m] is drawn from 0..MaxNeeded
MaxNeeded == 2
\* validate_onboarding is applied to message logs of length 0..MaxMessages
MaxMessages == 3
\* save_data is called at most MaxSaves times on a chat world
MaxSaves == 1
\* onboarding sessions that run and shut down concurrently
NumSessions == 3

\* ------------------------------------------------------------- chat world

BR == "<br>"
NoPD == "none"
NoId == "no_id"
NULL_ID == "NULL_ID"
AgentId == "Worker"
BotId == "Polyencoder"
Hi == <<"Hi!">>
person1_seed_utterance == <<"seed1">>
person2_seed_utterance == <<"seed2">>
persona_utterance == <<"your persona">>

\* Texts an act may carry: without a marker, with one, with two, starting with one.
Texts == { <<"Hello there">>,
           <<"Hello there", BR, "markup">>,
           <<"Hello", BR, "there", BR, "markup">>,
           <<BR, "markup">> }
\* Values of task_data['problem_data_for_prior_message'].
PDs == {"pd1", "pd2"}
StartModes == {"bst", "hi", "other"}

SetMin(S) == CHOOSE x \in S : \A y \in S : x <= y

\* text.split('<br>')[0]
SplitBr(text) ==
    LET at == {i \in 1..Len(text) : text[i] = BR}
    IN  IF at = {} THEN text ELSE SubSeq(text, 1, SetMin(at) - 1)

\* The 1-based position of the Python index i of list d (negative i counts
\* from the end).
PyIndex(d, i) == IF i < 0 THEN Len(d) + i + 1 ELSE i + 1

Utterance(agent_idx, text, id, fake_start) ==
    [agent_idx |-> agent_idx, text |-> text, id |-> id,
     fake_start |-> fake_start, problem_data |-> NoPD]

\* A message as an observer receives it.
Message(id, text) == [id |-> id, text |-> text]

\* An act of a party.  timeout: agent.act(timeout=...) raised instead of
\* returning.  final: task_data['final_rating'] is not None.  pd: the value
\* of task_data['problem_data_for_prior_message'], NoPD when the key (or
\* task_data) is missing.  id: NoId when the act has no 'id'.
Act(timeout, final, pd, text, id) ==
    [timeout |-> timeout, final |-> final, pd |-> pd, text |-> text, id |-> id]

HumanActs ==
    {Act(TRUE, FALSE, NoPD, <<>>, NoId)}
    \cup {Act(FALSE, TRUE, pd, <<>>, AgentId) : pd \in PDs \cup {NoPD}}
    \cup {Act(FALSE, FALSE, pd, t, id) :
            pd \in PDs \cup {NoPD}, t \in Texts, id \in {AgentId, NoId}}

BotActs ==
    {Act(FALSE, TRUE, pd, <<>>, BotId) : pd \in PDs \cup {NoPD}}
    \cup {Act(FALSE, FALSE, NoPD, t, BotId) : t \in Texts}

\* __add_problem_data_to_utterance: self.dialog[turn_idx]['problem_data'] = p
AddProblemData(d, p, turn_idx) ==
    [d EXCEPT ![PyIndex(d, turn_idx)].problem_data = p]

Event(ev, idx, at, act) == [ev |-> ev, idx |-> idx, at |-> at, act |-> act]

\* The state parley works on.
ChatState ==
    [dialog |-> dialog, task_turn_idx |-> task_turn_idx, chat_done |-> chat_done,
     agent_obs |-> agent_obs, bot_obs |-> bot_obs, trace |-> <<>>, outcome |-> "cont"]

\* agent ends chat after exceeding minimum number of turns:
\* self.task_turn_idx > self.num_turns
EndsAfterMinimumWeak(t, n) == t >= n
EndsAfterMinimum(t, n) == t > n

\* The turn_idx argument of __add_problem_data_to_utterance for the party idx.
AttachIndex(idx) == idx - 1

\* self.task_turn_idx += 1, at the end of the iteration for the party idx
NextTurnIdxBotOnly(t, idx) == IF idx = 1 THEN t + 1 ELSE t
NextTurnIdx(t, idx) == t + 1

\* utterance_data of the party idx for its act
UtteranceDataHuman(idx, act) ==
    Utterance(0, SplitBr(act.text), IF act.id # NoId THEN act.id ELSE NULL_ID, FALSE)
UtteranceData(idx, act) ==
    Utterance(idx, SplitBr(act.text), IF act.id # NoId THEN act.id ELSE NULL_ID, FALSE)

\* self.chat_done = True on a message with a final rating, only past the minimum
MarksDoneAfterMinimum(t, n) == t > n
\* self.chat_done = True on a message with a final rating, at the counter
\* value t with num_turns n: unconditional
MarksDone(t, n) == TRUE

\* The other party observes, the sender does not
ObservesEcho(other_idx, idx) == TRUE
\* for other_agent in [self.agent, self.bot]: if other_agent != agent: observe
Observes(other_idx, idx) == other_idx # idx

\* One iteration of parley's loop over [self.agent, self.bot], for the party idx
\* whose act() returned act (or timed out).
ProcessAct(st, idx, act) ==
    LET got == [st EXCEPT !.trace = Append(@, Event("act", idx, st.task_turn_idx, act))]
    IN
    IF act.timeout
    THEN [st EXCEPT !.trace = Append(@, Event("timeout", idx, 0, act)),
                    !.outcome = "raise"]
    ELSE IF act.final
    THEN LET done == [got EXCEPT
                         !.chat_done = MarksDone(got.task_turn_idx, num_turns)]
         IN  IF EndsAfterMinimum(done.task_turn_idx, num_turns)
             THEN IF act.pd = NoPD
                  THEN [done EXCEPT !.outcome = "raise"]
                  ELSE [done EXCEPT
                          !.dialog = AddProblemData(@, act.pd, AttachIndex(idx)),
                          !.trace = Append(@, Event("attach", idx,
                                        PyIndex(done.dialog, AttachIndex(idx)), act)),
                          !.outcome = "return"]
             ELSE [done EXCEPT !.outcome = "return"]
    ELSE LET appended ==
                 [got EXCEPT
                    !.dialog = Append(@, UtteranceData(idx, act)),
                    !.trace = Append(@, Event("append", idx, Len(got.dialog) + 1, act))]
             attached ==
                 IF idx # 0 THEN appended
                 ELSE IF act.pd = NoPD
                 THEN [appended EXCEPT !.outcome = "raise"]
                 ELSE [appended EXCEPT
                         !.dialog = AddProblemData(@, act.pd, AttachIndex(idx)),
                         !.trace = Append(@, Event("attach", idx,
                                       PyIndex(appended.dialog, AttachIndex(idx)), act))]
             msg == Message(act.id, act.text)
         IN  IF attached.outcome = "raise" THEN attached
             ELSE [attached EXCEPT
                     !.agent_obs = IF Observes(0, idx) THEN Append(@, msg) ELSE @,
                     !.bot_obs = IF Observes(1, idx) THEN Append(@, msg) ELSE @,
                     !.trace = Append(@, Event("observe", idx, 0, act)),
                     !.task_turn_idx = NextTurnIdx(@, idx)]

Commit(st) ==
    /\ dialog' = st.dialog
    /\ task_turn_idx' = st.task_turn_idx
    /\ chat_done' = st.chat_done
    /\ agent_obs' = st.agent_obs
    /\ bot_obs' = st.bot_obs
    /\ trace' = st.trace
    /\ chat_pc' = IF st.outcome = "raise" THEN "raised" ELSE "running"
    /\ UNCHANGED <<conversation_start_mode, include_persona, num_turns>>

\* The persona message of the first parley call: the bot observes it.
WithPersona(st) ==
    IF include_persona
    THEN [st EXCEPT !.bot_obs = Append(@, Message("persona", persona_utterance))]
    ELSE st

\* human_first_msg of the start mode: the seed utterance ('bst') or 'Hi!' ('hi')
HumanFirstMsgUntagged(mode) ==
    Utterance(0, IF mode = "bst" THEN person1_seed_utterance ELSE Hi, AgentId, FALSE)
HumanFirstMsg(mode) ==
    Utterance(0, IF mode = "bst" THEN person1_seed_utterance ELSE Hi, AgentId, TRUE)

\* parley with task_turn_idx == 0 and conversation_start_mode == 'bst'
ParleyStartBst ==
    /\ chat_pc = "running" /\ ~chat_done
    /\ task_turn_idx = 0
    /\ conversation_start_mode = "bst"
    /\ LET st == WithPersona(ChatState)
           human_first_msg == HumanFirstMsg("bst")
           bot_first_msg == Utterance(1, person2_seed_utterance, BotId, TRUE)
           m0 == Message(AgentId, person1_seed_utterance)
           m1 == Message(BotId, person2_seed_utterance)
       IN  Commit([st EXCEPT
                     !.dialog = @ \o <<human_first_msg, bot_first_msg>>,
                     !.agent_obs = @ \o <<m0, m1>>,
                     !.bot_obs = @ \o <<m0, m1>>,
                     !.trace = <<Event("start", 0, 0, Act(FALSE, FALSE, NoPD, <<>>, NoId))>>,
                     !.task_turn_idx = @ + 1])
    /\ UNCHANGED <<onboardVars, mwVars, sameVars, finishVars, valVars, sdVars, osVars>>

\* parley with task_turn_idx == 0 and conversation_start_mode == 'hi'
ParleyStartHi ==
    /\ chat_pc = "running" /\ ~chat_done
    /\ task_turn_idx = 0
    /\ conversation_start_mode = "hi"
    /\ \E first_bot_act \in {a \in BotActs : ~a.final} :
         LET st == WithPersona(ChatState)
             human_first_msg == HumanFirstMsg("hi")
             m0 == Message(AgentId, Hi)
             bot_utterance_data ==
                 Utterance(1, first_bot_act.text, first_bot_act.id, FALSE)
         IN  Commit([st EXCEPT
                       !.dialog = @ \o <<human_first_msg, bot_utterance_data>>,
                       !.agent_obs = @ \o <<m0, Message(first_bot_act.id,
                                                        first_bot_act.text)>>,
                       !.bot_obs = Append(@, m0),
                       !.trace = <<Event("start", 1, 0, first_bot_act)>>,
                       !.task_turn_idx = @ + 1])
    /\ UNCHANGED <<onboardVars, mwVars, sameVars, finishVars, valVars, sdVars, osVars>>

\* parley with task_turn_idx == 0 and an unrecognized start mode: ValueError
ParleyStartUnrecognized ==
    /\ chat_pc = "running" /\ ~chat_done
    /\ task_turn_idx = 0
    /\ conversation_start_mode \notin {"bst", "hi"}
    /\ Commit([WithPersona(ChatState) EXCEPT !.outcome = "raise"])
    /\ UNCHANGED <<onboardVars, mwVars, sameVars, finishVars, valVars, sdVars, osVars>>

\* parley with task_turn_idx > 0: the loop over the human (0) and the bot (1).
\* The caller stops calling parley once episode_done() (chat_done) is true or
\* parley has raised.
ParleyMain ==
    /\ chat_pc = "running" /\ ~chat_done
    /\ task_turn_idx > 0
    /\ task_turn_idx < MaxTurnIdx
    /\ \E human_act \in HumanActs, bot_act \in BotActs :
         LET s1 == ProcessAct(ChatState, 0, human_act)
             s2 == IF s1.outcome = "cont" THEN ProcessAct(s1, 1, bot_act) ELSE s1
         IN  Commit(s2)
    /\ UNCHANGED <<onboardVars, mwVars, sameVars, finishVars, valVars, sdVars, osVars>>

\* ------------------------------------------------------- onboarding world

ONBOARD_FAIL == "onboard_fail"
ONBOARD_SUCCESS == "onboard_success"

\* Annotation labels (strings in the code), ordered as sorted() orders them.
Labels == {1, 2, 3}

\* All sequences over S of length 0..n
SeqsUpTo(S, n) == UNION {[1..k -> S] : k \in 0..n}

\* the length zip() stops at
SetMin2(a, b) == IF a <= b THEN a ELSE b

\* sorted(ans): insertion of each element into the sorted prefix
RECURSIVE Insert(_, _)
Insert(x, sortedSeq) ==
    IF sortedSeq = <<>> THEN <<x>>
    ELSE IF x <= Head(sortedSeq) THEN <<x>> \o sortedSeq
    ELSE <<Head(sortedSeq)>> \o Insert(x, Tail(sortedSeq))

RECURSIVE Sorted(_)
Sorted(ans) == IF ans = <<>> THEN <<>> ELSE Insert(Head(ans), Sorted(Tail(ans)))

\* has_same_answer without the two sorted() calls
has_same_answer_unsorted(a1, a2) ==
    IF Len(a1) # Len(a2) THEN FALSE
    ELSE \A x \in 1..Len(a1) : a1[x] = a2[x]

\* TurnAnnotationsOnboardWorld.has_same_answer
has_same_answer(a1, a2) ==
    IF Len(a1) # Len(a2) THEN FALSE
    ELSE LET ans1_sort == Sorted(a1)
             ans2_sort == Sorted(a2)
         IN  \A x \in 1..Len(ans1_sort) : ans1_sort[x] = ans2_sort[x]

\* A worker_answer dict is the sequence of its items, <<key, selected>>, in the
\* dict's order; its keys are distinct.
WorkerAnswerMaps ==
    { <<>>,
      << <<1, TRUE>> >>,
      << <<1, TRUE>>, <<2, FALSE>> >>,
      << <<2, TRUE>>, <<1, TRUE>> >>,
      << <<1, FALSE>>, <<2, TRUE>>, <<3, FALSE>> >> }

\* Reference label lists t[1]['answers'] of a turn: the last two hold a label twice.
ReferenceAnswers == { <<1>>, <<1, 2>>, <<2>>, <<1, 1>>, <<2, 1, 2>> }

\* [key for key, selected in worker_answer.items() if selected]
RECURSIVE worker_only_selected(_)
worker_only_selected(worker_answer) ==
    IF worker_answer = <<>> THEN <<>>
    ELSE (IF Head(worker_answer)[2] THEN <<Head(worker_answer)[1]>> ELSE <<>>)
         \o worker_only_selected(Tail(worker_answer))

\* The pass rule of check_onboarding_answers, with "or" for "and"
PassRuleEither(nc, ni) == nc >= min_correct \/ ni <= max_incorrect
\* number_correct >= self.min_correct and number_incorrect <= self.max_incorrect
PassRule(nc, ni) == nc >= min_correct /\ ni <= max_incorrect

\* The loop of check_onboarding_answers over zip(worker_answers, correct_answers),
\* from pair k on, with the counters so far.
RECURSIVE CountAnswers(_, _, _, _, _)
CountAnswers(worker_answers, correct_answers, k, nc, ni) ==
    IF k > Len(worker_answers) \/ k > Len(correct_answers)
    THEN [number_correct |-> nc, number_incorrect |-> ni]
    ELSE IF has_same_answer(worker_only_selected(worker_answers[k]), correct_answers[k])
         THEN CountAnswers(worker_answers, correct_answers, k + 1, nc + 1, ni)
         ELSE CountAnswers(worker_answers, correct_answers, k + 1, nc, ni + 1)

\* TurnAnnotationsOnboardWorld.check_onboarding_answers
check_onboarding_answers(worker_answers) ==
    LET c == CountAnswers(worker_answers, onboard_task_data, 1, 0, 0)
    IN  [number_correct |-> c.number_correct,
         number_incorrect |-> c.number_incorrect,
         passed |-> PassRule(c.number_correct, c.number_incorrect)]

\* The act the worker's agent returns to parley.  kind: "timeout" (act raised),
\* "no_task_data", "no_annotations" (task_data without 'annotations'),
\* "annotations" (task_data['annotations'] is the list annotations).
OnboardAct(kind, annotations) == [kind |-> kind, annotations |-> annotations]

OnboardActs ==
    {OnboardAct(k, <<>>) : k \in {"timeout", "no_task_data", "no_annotations"}}
    \cup {OnboardAct("annotations", w) : w \in SeqsUpTo(WorkerAnswerMaps, MaxSubmitted)}

HandleResult(raised, result, granted, nc, ni) ==
    [raised |-> raised, result |-> result, granted |-> granted,
     number_correct |-> nc, number_incorrect |-> ni]

\* _handle_act without its "'task_data' not in act" guard: the lookup raises
HandleActUnguarded(act) ==
    IF act.kind \in {"no_task_data", "no_annotations"}
    THEN HandleResult(TRUE, "", FALSE, 0, 0)
    ELSE LET c == check_onboarding_answers(act.annotations)
         IN  IF c.passed
             THEN HandleResult(FALSE, ONBOARD_SUCCESS, FALSE,
                               c.number_correct, c.number_incorrect)
             ELSE HandleResult(FALSE, ONBOARD_FAIL, TRUE,
                               c.number_correct, c.number_incorrect)

\* TurnAnnotationsOnboardWorld._handle_act
HandleAct(act) ==
    IF act.kind = "no_task_data"
    THEN HandleResult(FALSE, ONBOARD_FAIL, FALSE, 0, 0)
    ELSE IF act.kind = "no_annotations"
    THEN HandleResult(TRUE, "", FALSE, 0, 0)
    ELSE LET c == check_onboarding_answers(act.annotations)
         IN  IF c.passed
             THEN HandleResult(FALSE, ONBOARD_SUCCESS, FALSE,
                               c.number_correct, c.number_incorrect)
             ELSE HandleResult(FALSE, ONBOARD_FAIL, TRUE,
                               c.number_correct, c.number_incorrect)

Grant == [ev |-> "grant", final_status |-> ""]
Observe(final_status) == [ev |-> "observe", final_status |-> final_status]

OnboardConfigUnchanged == UNCHANGED <<onboard_task_data, min_correct, max_incorrect>>

\* TurnAnnotationsOnboardWorld.parley, up to the keepalive loop
OnboardParley ==
    /\ onboard_pc = "awaiting"
    /\ \E act \in OnboardActs :
         /\ onboard_act' = act
         /\ IF act.kind = "timeout"
            THEN /\ onboard_pc' = "raised_act"
                 /\ UNCHANGED <<status, onboard_log, number_correct, number_incorrect>>
            ELSE LET h == HandleAct(act)
                 IN  IF h.raised
                     THEN /\ onboard_pc' = "raised_handle_act"
                          /\ UNCHANGED <<status, onboard_log, number_correct,
                                         number_incorrect>>
                     ELSE /\ status' = h.result
                          /\ onboard_log' =
                                onboard_log
                                \o (IF h.granted THEN <<Grant>> ELSE <<>>)
                                \o <<Observe(h.result)>>
                          /\ number_correct' = h.number_correct
                          /\ number_incorrect' = h.number_incorrect
                          /\ onboard_pc' = IF h.result = ONBOARD_FAIL
                                           THEN "blocked_wait" ELSE "returned"
    /\ OnboardConfigUnchanged
    /\ UNCHANGED <<chatVars, mwVars, sameVars, finishVars, valVars, sdVars, osVars>>

\* The keepalive loop of parley: an act of the worker is discarded.
OnboardKeepaliveAct ==
    /\ onboard_pc = "blocked_wait"
    /\ UNCHANGED vars

\* The keepalive loop of parley: agent.act(timeout=...) raises.
OnboardKeepaliveTimeout ==
    /\ onboard_pc = "blocked_wait"
    /\ onboard_pc' = "raised_keepalive"
    /\ UNCHANGED <<status, onboard_act, onboard_log, number_correct, number_incorrect>>
    /\ OnboardConfigUnchanged
    /\ UNCHANGED <<chatVars, mwVars, sameVars, finishVars, valVars, sdVars, osVars>>

\* The keepalive loop of parley ends after max_onboard_time: parley returns.
OnboardKeepaliveEnd ==
    /\ onboard_pc = "blocked_wait"
    /\ onboard_pc' = "returned"
    /\ UNCHANGED <<status, onboard_act, onboard_log, number_correct, number_incorrect>>
    /\ OnboardConfigUnchanged
    /\ UNCHANGED <<chatVars, mwVars, sameVars, finishVars, valVars, sdVars, osVars>>

\* TurnAnnotationsOnboardWorld.__init__
OnboardInit ==
    /\ onboard_task_data \in SeqsUpTo(ReferenceAnswers, MaxRefTurns) \ {<<>>}
    /\ min_correct \in 0..MaxThreshold
    /\ max_incorrect \in 0..MaxThreshold
    /\ status = "DISCONNECT"
    /\ onboard_pc = "awaiting"
    /\ onboard_act = OnboardAct("none", <<>>)
    /\ onboard_log = <<>>
    /\ number_correct = 0
    /\ number_incorrect = 0

OnboardNext ==
    \/ OnboardParley
    \/ OnboardKeepaliveAct
    \/ OnboardKeepaliveTimeout
    \/ OnboardKeepaliveEnd


ChatInit ==
    /\ conversation_start_mode \in StartModes
    /\ include_persona \in BOOLEAN
    /\ num_turns \in 1..MaxNumTurns
    /\ task_turn_idx = 0
    /\ dialog = <<>>
    /\ chat_done = FALSE
    /\ agent_obs = <<>>
    /\ bot_obs = <<>>
    /\ chat_pc = "running"
    /\ trace = <<>>

ChatIdle ==
    /\ conversation_start_mode = "hi"
    /\ include_persona = FALSE
    /\ num_turns = 1
    /\ task_turn_idx = 0
    /\ dialog = <<>>
    /\ chat_done = FALSE
    /\ agent_obs = <<>>
    /\ bot_obs = <<>>
    /\ chat_pc = "idle"
    /\ trace = <<>>

OnboardIdle ==
    /\ onboard_task_data = <<>>
    /\ min_correct = 0
    /\ max_incorrect = 0
    /\ status = "DISCONNECT"
    /\ onboard_pc = "idle"
    /\ onboard_act = [kind |-> "none", annotations |-> <<>>]
    /\ onboard_log = <<>>
    /\ number_correct = 0
    /\ number_incorrect = 0

MakeWorldIdle ==
    /\ conversations_needed = <<>>
    /\ run_statistics = <<>>
    /\ lock_holder = 0
    /\ mw_pc = <<>>
    /\ mw_remaining = <<>>
    /\ mw_model = <<>>
    /\ mw_tmp = <<>>

SameIdle ==
    /\ ans1 = <<>>
    /\ ans2 = <<>>
    /\ same_result = <<>>

FinishIdle ==
    /\ check_acceptability = FALSE
    /\ save_calls = <<>>
    /\ block_grants = 0
    /\ chat_shutdown = FALSE

ValidateIdle ==
    /\ val_messages = <<>>
    /\ val_result = <<>>

ShutdownsIdle ==
    /\ conv_pc = <<>>
    /\ sd_tmp = <<>>

SessionsIdle ==
    /\ session_status = <<>>
    /\ session_act = <<>>
    /\ session_pc = <<>>
    /\ onboard_statistics = <<>>
    /\ onboard_statistics_start = <<>>
    /\ os_tmp = <<>>

RestIdle == FinishIdle /\ ValidateIdle /\ ShutdownsIdle /\ SessionsIdle

Init == ChatInit /\ OnboardIdle /\ MakeWorldIdle /\ SameIdle /\ RestIdle

InitOnboard == ChatIdle /\ OnboardInit /\ MakeWorldIdle /\ SameIdle /\ RestIdle

SpecOnboard == InitOnboard /\ [][OnboardNext]_vars

Next ==
    \/ ParleyStartBst
    \/ ParleyStartHi
    \/ ParleyStartUnrecognized
    \/ ParleyMain

Spec == Init /\ [][Next]_vars

\* ------------------------------------------------------- has_same_answer

\* has_same_answer(ans1, ans2) for two label lists
HasSameAnswerCall ==
    /\ same_result = <<>>
    /\ same_result' = <<has_same_answer(ans1, ans2)>>
    /\ UNCHANGED <<ans1, ans2>>
    /\ UNCHANGED <<chatVars, onboardVars, mwVars, finishVars, valVars, sdVars, osVars>>

SameInit ==
    /\ ans1 \in SeqsUpTo(Labels, MaxLabelList)
    /\ ans2 \in SeqsUpTo(Labels, MaxLabelList)
    /\ same_result = <<>>

InitSame == ChatIdle /\ OnboardIdle /\ MakeWorldIdle /\ SameInit /\ RestIdle

SpecSame == InitSame /\ [][HasSameAnswerCall]_vars

\* --------------------------------------------------- validate_onboarding

\* A message of the log: None (present FALSE), or a dict with or without a
\* 'data' payload (a payload of None is no payload), whose final_status is ""
\* when the payload has none.
ValMessage(present, has_data, final_status) ==
    [present |-> present, has_data |-> has_data, final_status |-> final_status]

ValMessages ==
    { ValMessage(FALSE, FALSE, ""),
      ValMessage(TRUE, FALSE, ""),
      ValMessage(TRUE, TRUE, ""),
      ValMessage(TRUE, TRUE, ONBOARD_FAIL),
      ValMessage(TRUE, TRUE, ONBOARD_SUCCESS) }

\* validate_onboarding(data), messages being data['outputs']['messages']:
\* "True", "False", or "IndexError" when messages[-2] is out of range.
validate_onboarding(messages) ==
    IF Len(messages) = 0 THEN "False"
    ELSE IF PyIndex(messages, -2) < 1 THEN "IndexError"
    ELSE LET status_message == messages[PyIndex(messages, -2)]
         IN  IF ~status_message.present THEN "False"
             ELSE IF ~status_message.has_data THEN "False"
             ELSE IF status_message.final_status = ONBOARD_SUCCESS THEN "True"
             ELSE "False"

\* validate_onboarding applied to a message log
ValidateOnboardingCall ==
    /\ val_result = <<>>
    /\ val_result' = <<validate_onboarding(val_messages)>>
    /\ UNCHANGED val_messages
    /\ UNCHANGED <<chatVars, onboardVars, mwVars, sameVars, finishVars, sdVars, osVars>>

ValidateInit ==
    /\ val_messages \in SeqsUpTo(ValMessages, MaxMessages)
    /\ val_result = <<>>

InitValidate ==
    /\ ChatIdle /\ OnboardIdle /\ MakeWorldIdle /\ SameIdle
    /\ FinishIdle /\ ValidateInit /\ ShutdownsIdle /\ SessionsIdle

SpecValidate == InitValidate /\ [][ValidateOnboardingCall]_vars

\* ------------------------------------------------------------ make_world

\* The bot identities, in the order of the conversations_needed mapping.
Models == <<"model_a", "model_b">>
ModelSet == {Models[i] : i \in 1..Len(Models)}
Starts == 1..NumStarts

\* [(m, c - run_statistics[m]) for (m, c) in opt['conversations_needed'].items()]
RemainingCountsNeeded ==
    [i \in 1..Len(Models) |->
        <<Models[i], conversations_needed[Models[i]] - run_statistics[Models[i]]>>]

\* Insertion of pair x into a list sorted by descending second component,
\* after the pairs of the same value (list.sort is stable, also with reverse=True).
RECURSIVE InsertDesc(_, _)
InsertDesc(x, sortedSeq) ==
    IF sortedSeq = <<>> THEN <<x>>
    ELSE IF x[2] > Head(sortedSeq)[2] THEN <<x>> \o sortedSeq
    ELSE <<Head(sortedSeq)>> \o InsertDesc(x, Tail(sortedSeq))

\* remaining_counts_needed.sort(reverse=True, key=lambda x: x[1])
RECURSIVE SortDescFrom(_, _, _)
SortDescFrom(pairs, k, acc) ==
    IF k > Len(pairs) THEN acc ELSE SortDescFrom(pairs, k + 1, InsertDesc(pairs[k], acc))
SortDesc(pairs) == SortDescFrom(pairs, 1, <<>>)

\* "with statistics_condition:" entered whether or not another call holds it
CanAcquireUnlocked(p) == TRUE
\* "with statistics_condition:" is entered when no other call holds the lock
CanAcquire(p) == lock_holder = 0

MakeWorldConfigUnchanged == UNCHANGED conversations_needed

\* make_world: with statistics_condition (acquire)
MWAcquire(p) ==
    /\ mw_pc[p] = "start"
    /\ CanAcquire(p)
    /\ lock_holder' = p
    /\ mw_pc' = [mw_pc EXCEPT ![p] = "locked"]
    /\ UNCHANGED <<run_statistics, mw_remaining, mw_model, mw_tmp>>
    /\ MakeWorldConfigUnchanged
    /\ UNCHANGED <<chatVars, onboardVars, sameVars, finishVars, valVars, sdVars, osVars>>

\* make_world: remaining_counts_needed, its sort, model_name
MWChoose(p) ==
    /\ mw_pc[p] = "locked"
    /\ LET remaining_counts_needed == SortDesc(RemainingCountsNeeded)
       IN  /\ mw_remaining' = [mw_remaining EXCEPT ![p] = remaining_counts_needed]
           /\ mw_model' = [mw_model EXCEPT ![p] = remaining_counts_needed[1][1]]
    /\ mw_pc' = [mw_pc EXCEPT ![p] = "chosen"]
    /\ UNCHANGED <<run_statistics, lock_holder, mw_tmp>>
    /\ MakeWorldConfigUnchanged
    /\ UNCHANGED <<chatVars, onboardVars, sameVars, finishVars, valVars, sdVars, osVars>>

\* make_world: run_statistics[model_name] += 1, the read
MWRead(p) ==
    /\ mw_pc[p] = "chosen"
    /\ mw_tmp' = [mw_tmp EXCEPT ![p] = run_statistics[mw_model[p]]]
    /\ mw_pc' = [mw_pc EXCEPT ![p] = "read"]
    /\ UNCHANGED <<run_statistics, lock_holder, mw_remaining, mw_model>>
    /\ MakeWorldConfigUnchanged
    /\ UNCHANGED <<chatVars, onboardVars, sameVars, finishVars, valVars, sdVars, osVars>>

\* make_world: run_statistics[model_name] += 1, the write
MWWrite(p) ==
    /\ mw_pc[p] = "read"
    /\ run_statistics' = [run_statistics EXCEPT ![mw_model[p]] = mw_tmp[p] + 1]
    /\ mw_pc' = [mw_pc EXCEPT ![p] = "written"]
    /\ UNCHANGED <<lock_holder, mw_remaining, mw_model, mw_tmp>>
    /\ MakeWorldConfigUnchanged
    /\ UNCHANGED <<chatVars, onboardVars, sameVars, finishVars, valVars, sdVars, osVars>>

\* make_world: leaving the with block (release)
MWRelease(p) ==
    /\ mw_pc[p] = "written"
    /\ lock_holder' = 0
    /\ mw_pc' = [mw_pc EXCEPT ![p] = "done"]
    /\ UNCHANGED <<run_statistics, mw_remaining, mw_model, mw_tmp>>
    /\ MakeWorldConfigUnchanged
    /\ UNCHANGED <<chatVars, onboardVars, sameVars, finishVars, valVars, sdVars, osVars>>

MakeWorldInit ==
    /\ conversations_needed \in [ModelSet -> 0..MaxNeeded]
    /\ run_statistics = [m \in ModelSet |-> 0]
    /\ lock_holder = 0
    /\ mw_pc = [p \in Starts |-> "start"]
    /\ mw_remaining = [p \in Starts |-> <<>>]
    /\ mw_model = [p \in Starts |-> "none"]
    /\ mw_tmp = [p \in Starts |-> 0]

MakeWorldNext ==
    \E p \in Starts :
        \/ MWAcquire(p)
        \/ MWChoose(p)
        \/ MWRead(p)
        \/ MWWrite(p)
        \/ MWRelease(p)

InitMakeWorld == ChatIdle /\ OnboardIdle /\ MakeWorldInit /\ SameIdle /\ RestIdle

SpecMakeWorld == InitMakeWorld /\ [][MakeWorldNext]_vars

\* ------------------------- make_world starts and chat world shutdowns

\* self.bot.worker_id of the conversation make_world call p created: the
\* model_name the call chose for its bot.
BotWorkerIdOf(p) == mw_model[p]

\* The conversation that make_world call p returned is over and its world is
\* shut down, with chat_done true or not.
ConvEnd(p) ==
    /\ mw_pc[p] = "done"
    /\ conv_pc[p] = "chatting"
    /\ \E done \in BOOLEAN :
         conv_pc' = [conv_pc EXCEPT ![p] = IF done THEN "shutdown" ELSE "ended"]
    /\ UNCHANGED <<sd_tmp, mwVars>>
    /\ UNCHANGED <<chatVars, onboardVars, sameVars, finishVars, valVars, osVars>>

\* shutdown with chat_done: run_statistics[self.bot.worker_id] += 1, the read.
\* There is no "with statistics_condition" around it.
SDRead(p) ==
    /\ conv_pc[p] = "shutdown"
    /\ sd_tmp' = [sd_tmp EXCEPT ![p] = run_statistics[BotWorkerIdOf(p)]]
    /\ conv_pc' = [conv_pc EXCEPT ![p] = "read"]
    /\ UNCHANGED mwVars
    /\ UNCHANGED <<chatVars, onboardVars, sameVars, finishVars, valVars, osVars>>

\* shutdown with chat_done: run_statistics[self.bot.worker_id] += 1, the write
SDWrite(p) ==
    /\ conv_pc[p] = "read"
    /\ run_statistics' = [run_statistics EXCEPT ![BotWorkerIdOf(p)] = sd_tmp[p] + 1]
    /\ conv_pc' = [conv_pc EXCEPT ![p] = "counted"]
    /\ UNCHANGED <<conversations_needed, lock_holder, mw_pc, mw_remaining,
                   mw_model, mw_tmp, sd_tmp>>
    /\ UNCHANGED <<chatVars, onboardVars, sameVars, finishVars, valVars, osVars>>

StatsInit ==
    /\ MakeWorldInit
    /\ conv_pc = [p \in Starts |-> "chatting"]
    /\ sd_tmp = [p \in Starts |-> 0]

StatsNext ==
    \/ MakeWorldNext
    \/ \E p \in Starts :
        \/ ConvEnd(p)
        \/ SDRead(p)
        \/ SDWrite(p)

InitStats ==
    /\ ChatIdle /\ OnboardIdle /\ StatsInit /\ SameIdle /\ FinishIdle /\ ValidateIdle
    /\ SessionsIdle

SpecStats == InitStats /\ [][StatsNext]_vars

\* ------------------------- onboarding sessions and their shutdowns

DISCONNECT == "DISCONNECT"
StatusKeys == {DISCONNECT, ONBOARD_FAIL, ONBOARD_SUCCESS}
Sessions == 1..NumSessions

\* opt['onboard_statistics'] when the sessions start: empty, or holding
\* counts of earlier sessions.
StartHistograms ==
    { [k \in {} |-> 0],
      [k \in {ONBOARD_SUCCESS} |-> 1],
      [k \in {DISCONNECT, ONBOARD_FAIL} |-> IF k = DISCONNECT THEN 2 ELSE 0] }

\* shutdown's "with self.statistics_condition:" entered whoever holds the lock
OnboardCanAcquireUnlocked(s) == TRUE
\* shutdown's "with self.statistics_condition:" is entered when the lock is free
OnboardCanAcquire(s) == lock_holder = 0

\* self.status after parley received act: _handle_act's result, or the
\* 'DISCONNECT' of __init__ when act() or _handle_act raised.
StatusAfter(act) ==
    IF act.kind = "timeout" THEN DISCONNECT
    ELSE LET h == HandleAct(act)
         IN  IF h.raised THEN DISCONNECT ELSE h.result

\* The acts a session's parley receives: a timeout, an act without payload,
\* or a submission of at most one selection map.
SessionActs == {act \in OnboardActs : Len(act.annotations) <= 1}

SessionFrame ==
    /\ UNCHANGED <<chatVars, onboardVars, sameVars, finishVars, valVars, sdVars>>
    /\ UNCHANGED <<conversations_needed, run_statistics, mw_pc, mw_remaining,
                   mw_model, mw_tmp, onboard_statistics_start>>

\* The parley of session s, to its end: the session's world is then shut down.
SessionParley(s) ==
    /\ session_pc[s] = "awaiting"
    /\ \E act \in SessionActs :
         /\ session_act' = [session_act EXCEPT ![s] = act.kind]
         /\ session_status' = [session_status EXCEPT ![s] = StatusAfter(act)]
    /\ session_pc' = [session_pc EXCEPT ![s] = "ended"]
    /\ UNCHANGED <<lock_holder, onboard_statistics, os_tmp>>
    /\ SessionFrame

\* shutdown: with self.statistics_condition (acquire)
OSAcquire(s) ==
    /\ session_pc[s] = "ended"
    /\ OnboardCanAcquire(s)
    /\ lock_holder' = s
    /\ session_pc' = [session_pc EXCEPT ![s] = "locked"]
    /\ UNCHANGED <<session_status, session_act, onboard_statistics, os_tmp>>
    /\ SessionFrame

\* shutdown: if self.status not in self.onboard_statistics: ...[self.status] = 0
OSEnsureKey(s) ==
    /\ session_pc[s] = "locked"
    /\ onboard_statistics' =
          [k \in DOMAIN onboard_statistics \cup {session_status[s]} |->
              IF k \in DOMAIN onboard_statistics THEN onboard_statistics[k] ELSE 0]
    /\ session_pc' = [session_pc EXCEPT ![s] = "keyed"]
    /\ UNCHANGED <<lock_holder, session_status, session_act, os_tmp>>
    /\ SessionFrame

\* shutdown: self.onboard_statistics[self.status] += 1, the read
OSRead(s) ==
    /\ session_pc[s] = "keyed"
    /\ os_tmp' = [os_tmp EXCEPT ![s] = onboard_statistics[session_status[s]]]
    /\ session_pc' = [session_pc EXCEPT ![s] = "read"]
    /\ UNCHANGED <<lock_holder, session_status, session_act, onboard_statistics>>
    /\ SessionFrame

\* shutdown: self.onboard_statistics[self.status] += 1, the write
OSWrite(s) ==
    /\ session_pc[s] = "read"
    /\ onboard_statistics' =
          [onboard_statistics EXCEPT ![session_status[s]] = os_tmp[s] + 1]
    /\ session_pc' = [session_pc EXCEPT ![s] = "written"]
    /\ UNCHANGED <<lock_holder, session_status, session_act, os_tmp>>
    /\ SessionFrame

\* shutdown: leaving the with block (release)
OSRelease(s) ==
    /\ session_pc[s] = "written"
    /\ lock_holder' = 0
    /\ session_pc' = [session_pc EXCEPT ![s] = "done"]
    /\ UNCHANGED <<session_status, session_act, onboard_statistics, os_tmp>>
    /\ SessionFrame

\* The onboarding configuration is one under which a submission can pass and
\* can fail; shutdown reads none of it.
SessionsConfig ==
    /\ onboard_task_data = << <<1>>, <<1, 2>> >>
    /\ min_correct = 1
    /\ max_incorrect = 1
    /\ status = DISCONNECT
    /\ onboard_pc = "idle"
    /\ onboard_act = [kind |-> "none", annotations |-> <<>>]
    /\ onboard_log = <<>>
    /\ number_correct = 0
    /\ number_incorrect = 0

SessionsInit ==
    /\ session_status = [s \in Sessions |-> DISCONNECT]
    /\ session_act = [s \in Sessions |-> "none"]
    /\ session_pc = [s \in Sessions |-> "awaiting"]
    /\ onboard_statistics \in StartHistograms
    /\ onboard_statistics_start = onboard_statistics
    /\ os_tmp = [s \in Sessions |-> 0]

SessionsNext ==
    \E s \in Sessions :
        \/ SessionParley(s)
        \/ OSAcquire(s)
        \/ OSEnsureKey(s)
        \/ OSRead(s)
        \/ OSWrite(s)
        \/ OSRelease(s)

InitSessions ==
    /\ ChatIdle /\ SessionsConfig /\ MakeWorldIdle /\ SameIdle
    /\ FinishIdle /\ ValidateIdle /\ ShutdownsIdle /\ SessionsInit

SpecSessions == InitSessions /\ [][SessionsNext]_vars

\* ------------------------------------- chat world: shutdown and save_data

\* self.bot.worker_id: the model_name make_world chose for this conversation
BotWorkerId == Models[1]

\* What AcceptabilityChecker.check_messages may return: '' or a violation report.
ViolationReports == {"", "violation"}
\* violations_string when acceptability is not checked
None == "None"

\* violation_types of save_data, 'penalize_greetings' appended in every mode but 'bst'
ViolationTypesNotBst(mode) ==
    <<"min_words", "all_caps", "exact_match", "safety">>
    \o (IF mode # "bst" THEN <<"penalize_greetings">> ELSE <<>>)
\* violation_types of save_data
ViolationTypes(mode) ==
    <<"min_words", "all_caps", "exact_match", "safety">>
    \o (IF mode = "bst" THEN <<"penalize_greetings">> ELSE <<>>)

\* [message['text'] for message in self.dialog if message['agent_idx'] == 0]
RECURSIVE HumanTexts(_)
HumanTexts(d) ==
    IF d = <<>> THEN <<>>
    ELSE (IF Head(d).agent_idx = 0 THEN <<Head(d).text>> ELSE <<>>) \o HumanTexts(Tail(d))

\* the grant of save_data without its "if self.check_acceptability"
GrantsBlockUnchecked(checked, violations_string) == violations_string # ""
\* save_data: if self.check_acceptability: if violations_string != '': grant
GrantsBlock(checked, violations_string) == checked /\ violations_string # ""

\* TurnAnnotationsChatWorld.save_data, the acceptability checker answering report
SaveData ==
    /\ chat_done
    /\ Len(save_calls) < MaxSaves
    /\ \E report \in ViolationReports :
         LET violations_string == IF check_acceptability THEN report ELSE None
             call == [checked |-> check_acceptability,
                      messages |-> IF check_acceptability
                                   THEN HumanTexts(dialog) ELSE <<>>,
                      violation_types |-> IF check_acceptability
                                          THEN ViolationTypes(conversation_start_mode)
                                          ELSE <<>>,
                      violations_string |-> violations_string]
         IN  /\ save_calls' = Append(save_calls, call)
             /\ block_grants' =
                   IF GrantsBlock(check_acceptability, violations_string)
                   THEN block_grants + 1 ELSE block_grants
    /\ UNCHANGED <<check_acceptability, chat_shutdown>>
    /\ UNCHANGED <<chatVars, onboardVars, mwVars, sameVars, valVars, sdVars, osVars>>

\* TurnAnnotationsChatWorld.shutdown of this one conversation (its interleaving
\* with other conversations is MakeWorldNext and ShutdownNext below)
ChatShutdown ==
    /\ chat_done \/ chat_pc = "raised"
    /\ ~chat_shutdown
    /\ chat_shutdown' = TRUE
    /\ run_statistics' = IF chat_done
                         THEN [run_statistics EXCEPT ![BotWorkerId] = @ + 1]
                         ELSE run_statistics
    /\ UNCHANGED <<check_acceptability, save_calls, block_grants>>
    /\ UNCHANGED <<conversations_needed, lock_holder, mw_pc, mw_remaining, mw_model,
                   mw_tmp>>
    /\ UNCHANGED <<chatVars, onboardVars, sameVars, valVars, sdVars, osVars>>

\* The chat world make_world returned: its bot's run_statistics entry is counted.
\* shutdown and save_data do not read num_turns: one value of it is kept.
FinishInit ==
    /\ ChatInit
    /\ num_turns = 1
    /\ check_acceptability \in BOOLEAN
    /\ save_calls = <<>>
    /\ block_grants = 0
    /\ chat_shutdown = FALSE
    /\ conversations_needed = [m \in ModelSet |-> MaxNeeded]
    /\ run_statistics = [m \in ModelSet |-> IF m = BotWorkerId THEN 1 ELSE 0]
    /\ lock_holder = 0
    /\ mw_pc = <<>>
    /\ mw_remaining = <<>>
    /\ mw_model = <<>>
    /\ mw_tmp = <<>>

InitFinish ==
    /\ FinishInit /\ OnboardIdle /\ SameIdle /\ ValidateIdle /\ ShutdownsIdle
    /\ SessionsIdle

FinishNext ==
    \/ Next
    \/ SaveData
    \/ ChatShutdown

SpecFinish == InitFinish /\ [][FinishNext]_vars

\* -------------------------------------------------- claims, onboarding

\* The number of times label l occurs in list a.
Occurrences(l, a) == Cardinality({k \in 1..Len(a) : a[k] = l})

\* The two label lists hold the same labels, each the same number of times.
SameLabelCounts(a, b) == \A l \in Labels : Occurrences(l, a) = Occurrences(l, b)

\* The turns of a submission that has_same_answer compares: those that have both
\* a selection map and a reference label list.
ComparedTurns == 1..SetMin2(Len(onboard_act.annotations), Len(onboard_task_data))

CorrectTurns ==
    {k \in ComparedTurns :
        SameLabelCounts(worker_only_selected(onboard_act.annotations[k]),
                        onboard_task_data[k])}

\* C5: for every evaluated submission, check_onboarding_answers accepts (the
\* status is the success sentinel) if and only if correct_count >= min_correct
\* and incorrect_count <= max_incorrect, the counts being the numbers of
\* compared turns whose selected labels do / do not equal the reference labels.
C5_PassRule ==
    onboard_act.kind = "annotations" =>
        /\ number_correct = Cardinality(CorrectTurns)
        /\ number_incorrect = Cardinality(ComparedTurns \ CorrectTurns)
        /\ (status = ONBOARD_SUCCESS) <=>
              /\ Cardinality(CorrectTurns) >= min_correct
              /\ Cardinality(ComparedTurns \ CorrectTurns) <= max_incorrect

\* C5 witness: an accepted submission with one correct and one incorrect turn.
C5_Witness ==
    /\ onboard_act.kind = "annotations"
    /\ status = ONBOARD_SUCCESS
    /\ number_correct = 1 /\ number_incorrect = 1

SeqRange(a) == {a[k] : k \in 1..Len(a)}

C7_NoPayloadFails ==
    onboard_act.kind = "no_task_data" =>
        /\ onboard_pc # "raised_handle_act"
        /\ status = ONBOARD_FAIL
        /\ onboard_log # <<>>
        /\ onboard_log[Len(onboard_log)] = Observe(ONBOARD_FAIL)

\* C7 witness: parley handled an act without 'task_data' and holds the session.
C7_Witness ==
    onboard_act.kind = "no_task_data" /\ onboard_pc = "blocked_wait"

\* --------------------------------------------------- claims, make_world

RECURSIVE SumOver(_, _)
SumOver(f, S) ==
    IF S = {} THEN 0
    ELSE LET x == CHOOSE y \in S : TRUE IN f[x] + SumOver(f, S \ {x})

Remaining(m) == conversations_needed[m] - run_statistics[m]

\* The starts that have made their increment.
Incremented == {q \in Starts : mw_pc[q] \in {"written", "done"}}

\* C8: for concurrent make_world calls, (a) the identity a call selected has
\* the largest remaining need in the state it holds the lock in, (b) the
\* remaining needs it computed count the increment of every call that held the
\* lock before it, and (c) the increments sum to the number of calls that made
\* theirs: N once all N calls are through.
C8_StartsUnderLock ==
    /\ \A p \in Starts : mw_pc[p] \in {"chosen", "read"} =>
          /\ \A m \in ModelSet : Remaining(m) <= Remaining(mw_model[p])
          /\ \A k \in 1..Len(mw_remaining[p]) :
                mw_remaining[p][k][2] =
                    conversations_needed[mw_remaining[p][k][1]]
                    - Cardinality({q \in Incremented :
                                      mw_model[q] = mw_remaining[p][k][1]})
    /\ SumOver(run_statistics, ModelSet) = Cardinality(Incremented)
    /\ (\A p \in Starts : mw_pc[p] = "done") =>
          SumOver(run_statistics, ModelSet) = NumStarts

\* C8 witness: all starts are through and both identities were selected.
C8_Witness ==
    /\ \A p \in Starts : mw_pc[p] = "done"
    /\ \A m \in ModelSet : run_statistics[m] >= 1

\* ------------------------------------------------------ claims, chat world

\* The events of the most recent parley call.
TraceEvents(ev) == {i \in 1..Len(trace) : trace[i].ev = ev}

\* C1: in the main loop, the payload a human message carries is attached to
\* the bot utterance just before it: the position that receives problem_data
\* is strictly below the position at which the carrying message is recorded
\* and holds a bot utterance (agent_idx 1), never the carrying record itself.
C1_AttachedToPriorBotUtterance ==
    \A i \in TraceEvents("attach") : \A j \in TraceEvents("append") :
        trace[j].idx = trace[i].idx =>
            /\ trace[i].at < trace[j].at
            /\ dialog[trace[i].at].agent_idx = 1

SameUtterance(u, v) ==
    /\ u.agent_idx = v.agent_idx
    /\ u.text = v.text
    /\ u.id = v.id
    /\ u.fake_start = v.fake_start

\* C3: in every reachable state the dialog alternates sides starting with the
\* human (dialog[i].agent_idx == i mod 2, 0-based), and no step removes or
\* reorders an entry: every entry keeps its position, side, text and id.
C3_StrictAlternation ==
    /\ [](\A i \in 1..Len(dialog) : dialog[i].agent_idx = (i - 1) % 2)
    /\ [][/\ Len(dialog') >= Len(dialog)
          /\ \A i \in 1..Len(dialog) : SameUtterance(dialog'[i], dialog[i])]_vars

\* C3 witness: a conversation the bot's rating-completion message ended, after
\* the human's utterance of that call was recorded (an odd-length dialog).
C3_Witness ==
    chat_done /\ Len(dialog) % 2 = 1 /\ Len(dialog) >= 3

\* The final (rating-completion) messages of the most recent parley call that
\* carry a payload.
FinalsWithPayload ==
    {i \in TraceEvents("act") : trace[i].act.final /\ trace[i].act.pd # NoPD}

AttachedBy(i) == {j \in TraceEvents("attach") : trace[j].idx = trace[i].idx}

\* C4: a rating-completion message marks the conversation done, and the
\* payload it carries is attached (to an utterance, then holding it) if and
\* only if task_turn_idx > num_turns at that moment; otherwise the message
\* attaches nothing.
C4_FinalPayloadIffPastMinimum ==
    \A i \in FinalsWithPayload :
        /\ chat_done
        /\ (AttachedBy(i) # {}) <=> (task_turn_idx > num_turns)
        /\ \A j \in AttachedBy(i) : dialog[trace[j].at].problem_data = trace[i].act.pd
        /\ task_turn_idx <= num_turns /\ trace[i].idx = 0 =>
               TraceEvents("attach") = {}

\* C4 witness: the human ends the conversation after a main-loop round while
\* task_turn_idx <= num_turns, with a payload on the ending message.
C4_Witness ==
    /\ \E i \in FinalsWithPayload : trace[i].idx = 0
    /\ task_turn_idx = 3
    /\ task_turn_idx <= num_turns

\* C9: no dialog entry produced from a bot act (in the main loop, or as the
\* bot's first reply in greeting-only mode) contains '<br>'.
C9_BotTextHasNoBreakMarker ==
    \A i \in 1..Len(dialog) :
        dialog[i].agent_idx = 1 /\ ~dialog[i].fake_start =>
            \A k \in 1..Len(dialog[i].text) : dialog[i].text[k] # BR

InSeq(m, q) == \E k \in 1..Len(q) : q[k] = m

\* C10: the first parley call with a recognized start mode leaves exactly two
\* utterances and the turn index at 1.  'hi': dialog[0] is the human 'Hi!'
\* tagged fake_start, delivered to both parties, and dialog[1] is the bot's
\* (agent_idx 1) with the text and id of its first reply, delivered to the
\* human.  'bst': dialog[0] and dialog[1] are the two seed utterances, both
\* tagged fake_start, each delivered to both parties.
C10_FirstParley ==
    (Len(trace) = 1 /\ trace[1].ev = "start") =>
        /\ Len(dialog) = 2
        /\ task_turn_idx = 1
        /\ dialog[1].agent_idx = 0 /\ dialog[1].fake_start
        /\ dialog[2].agent_idx = 1
        /\ conversation_start_mode = "hi" =>
              /\ dialog[1].text = Hi
              /\ InSeq(Message(dialog[1].id, Hi), agent_obs)
              /\ InSeq(Message(dialog[1].id, Hi), bot_obs)
              /\ dialog[2].text = trace[1].act.text
              /\ dialog[2].id = trace[1].act.id
              /\ InSeq(Message(trace[1].act.id, trace[1].act.text), agent_obs)
        /\ conversation_start_mode = "bst" =>
              /\ dialog[1].text = person1_seed_utterance
              /\ dialog[2].text = person2_seed_utterance
              /\ dialog[2].fake_start
              /\ \A k \in 1..2 :
                    /\ InSeq(Message(dialog[k].id, dialog[k].text), agent_obs)
                    /\ InSeq(Message(dialog[k].id, dialog[k].text), bot_obs)

\* C10 witness: the state right after the first call in greeting-only mode,
\* the bot's first reply carrying annotation markup.
C10_Witness ==
    /\ Len(trace) = 1 /\ trace[1].ev = "start"
    /\ conversation_start_mode = "hi"
    /\ trace[1].act.text = <<"Hello there", BR, "markup">>

\* ------------------------------------------- claims, validate_onboarding

\* C11: validate_onboarding never raises on a message log; it returns true
\* exactly when the log has a second-to-last message whose payload has
\* final_status equal to the success sentinel, and false otherwise (no
\* messages, a single message, no second-to-last message, no payload).
C11_ValidateNeverRaises ==
    val_result # <<>> =>
        /\ val_result[1] \in {"True", "False"}
        /\ (val_result[1] = "True") <=>
              /\ Len(val_messages) >= 2
              /\ val_messages[Len(val_messages) - 1].present
              /\ val_messages[Len(val_messages) - 1].has_data
              /\ val_messages[Len(val_messages) - 1].final_status = ONBOARD_SUCCESS

\* ------------------------------------------------ claims, save_data

CheckedSaves == {k \in 1..Len(save_calls) : save_calls[k].checked}

\* C12 as stated: the rule set save_data passes to the acceptability checker
\* excludes 'penalize_greetings' whenever the start mode is 'bst'.
C12_BstExcludesGreetingRule ==
    \A k \in CheckedSaves :
        conversation_start_mode = "bst" =>
            "penalize_greetings" \notin SeqRange(save_calls[k].violation_types)

\* C12 amended: the rule set save_data passes to the acceptability checker
\* holds 'penalize_greetings' exactly when the start mode is 'bst'; it always
\* holds the four rules min_words, all_caps, exact_match and safety.
C12_GreetingRuleIffBst ==
    \A k \in CheckedSaves :
        /\ ("penalize_greetings" \in SeqRange(save_calls[k].violation_types))
              <=> (conversation_start_mode = "bst")
        /\ {"min_words", "all_caps", "exact_match", "safety"}
              \subseteq SeqRange(save_calls[k].violation_types)

\* C12 witness: save_data ran the checker on a seeded-pair conversation.
C12_Witness ==
    CheckedSaves # {} /\ conversation_start_mode = "bst"

\* C13: the block qualification was granted once for every save_data call
\* that checked acceptability and got a non-empty report, and never otherwise:
\* not by a call with checking disabled or an empty report, not by parley, not
\* by shutdown.
C13_BlockGrantPerViolation ==
    block_grants =
        Cardinality({k \in CheckedSaves : save_calls[k].violations_string # ""})

\* C13 witness: a conversation that was shut down and saved with a violation.
C13_Witness ==
    /\ chat_shutdown
    /\ \E k \in CheckedSaves : save_calls[k].violations_string # ""

\* ------------------------------------------- claims, the turn counter

ActsOf(idx) == {i \in DOMAIN trace : trace[i].ev = "act" /\ trace[i].idx = idx}
Appends == {i \in DOMAIN trace : trace[i].ev = "append"}
Observed == {i \in DOMAIN trace : trace[i].ev = "observe"}

Counted == {p \in Starts : conv_pc[p] = "counted"}

\* C15: no increment of run_statistics is lost, whether made by a make_world
\* start or by the shutdown of a finished conversation: the sum of
\* run_statistics is the number of increments performed.
C15_NoIncrementLost ==
    SumOver(run_statistics, ModelSet) = Cardinality(Incremented) + Cardinality(Counted)

\* C16: run_statistics[m] never exceeds the number of distinct conversations
\* started for the bot identity m: each conversation is counted at most once
\* over its start and its shutdown.
C16_CountedAtMostOnce ==
    \A m \in ModelSet :
        run_statistics[m] <= Cardinality({p \in Starts : mw_model[p] = m})

\* ------------------------------------- claims, onboarding outcomes

GrantsAt == {i \in DOMAIN onboard_log : onboard_log[i] = Grant}
ObservesAt(final_status) ==
    {i \in DOMAIN onboard_log : onboard_log[i] = Observe(final_status)}

\* C17: a session whose outcome is FAIL has granted the onboarding-failure
\* qualification, before the failure status was delivered to the worker (and
\* so before the keepalive hold); a session whose outcome is SUCCESS has not
\* granted it.
C17_FailGrantsBeforeStatus ==
    /\ status = ONBOARD_FAIL =>
          /\ GrantsAt # {}
          /\ \A i \in GrantsAt, j \in ObservesAt(ONBOARD_FAIL) : i < j
    /\ status = ONBOARD_SUCCESS => GrantsAt = {}

\* C20: when a submission has been evaluated, the turns counted correct and
\* the turns counted incorrect add up to the number of reference turns.
C20_EveryReferenceTurnCounted ==
    (onboard_act.kind = "annotations" /\ onboard_pc # "raised_handle_act") =>
        number_correct + number_incorrect = Len(onboard_task_data)

\* --------------------------------- claims, the order of a main-loop call

Solicited == {i \in DOMAIN trace : trace[i].ev \in {"act", "timeout"}}
ObservedOf(tr, idx) == {i \in DOMAIN tr : tr[i].ev = "observe" /\ tr[i].idx = idx}

\* The message of the party idx that the events tr deliver: at most one.
Delivered(tr, idx) ==
    IF ObservedOf(tr, idx) = {} THEN <<>>
    ELSE LET i == CHOOSE k \in ObservedOf(tr, idx) : TRUE
         IN  <<Message(tr[i].act.id, tr[i].act.text)>>

Finals == {i \in TraceEvents("act") : trace[i].act.final}

\* C19 as stated: chat_done is never true while the turn counter has not
\* reached num_turns.
C19_NoEndBeforeMinimum ==
    chat_done => task_turn_idx >= num_turns

\* C19 amended: a rating-completion message marks the conversation done
\* whatever the turn counter is (chat_done is true exactly when the last parley
\* call received one); while task_turn_idx <= num_turns the message only loses
\* its annotation payload.
C19_DoneOnAnyRatingCompletion ==
    /\ chat_done <=> Finals # {}
    /\ \A i \in Finals : task_turn_idx <= num_turns => AttachedBy(i) = {}

\* C19 witness: the conversation was ended by a rating-completion message
\* before the counter reached num_turns.
C19_Witness ==
    chat_done /\ Finals # {} /\ task_turn_idx < num_turns

\* ------------------------------------ claims, the outcome histogram

\* The value of key k in the dict d, 0 when the key is absent.
ValueOf(d, k) == IF k \in DOMAIN d THEN d[k] ELSE 0

\* The sessions whose shutdown has made its increment, with terminal status k.
ShutDownWith(k) ==
    {s \in Sessions : session_pc[s] \in {"written", "done"} /\ session_status[s] = k}

HistogramSum(d) ==
    ValueOf(d, DISCONNECT) + ValueOf(d, ONBOARD_FAIL) + ValueOf(d, ONBOARD_SUCCESS)

\* C21: for any interleaving of concurrent onboarding shutdowns, every entry of
\* the outcome histogram has grown by the number of sessions shut down with
\* that terminal status (so the values have grown, in sum, by the number of
\* sessions shut down), no entry under another key exists, the entry of a
\* session shut down is present, and a session whose act was never handled
\* is counted under 'DISCONNECT'.
C21_HistogramCountsEachShutdown ==
    /\ DOMAIN onboard_statistics \subseteq StatusKeys
    /\ \A k \in StatusKeys :
          /\ ValueOf(onboard_statistics, k) =
                ValueOf(onboard_statistics_start, k) + Cardinality(ShutDownWith(k))
          /\ ShutDownWith(k) # {} => k \in DOMAIN onboard_statistics
    /\ HistogramSum(onboard_statistics) =
          HistogramSum(onboard_statistics_start)
          + Cardinality({s \in Sessions : session_pc[s] \in {"written", "done"}})
    /\ \A s \in Sessions :
          session_act[s] \in {"timeout", "no_annotations"} =>
              session_status[s] = DISCONNECT

\* C21 witness: all sessions are shut down, two of them with the same
\* status, one after a timeout, one after a success.
C21_Witness ==
    /\ \A s \in Sessions : session_pc[s] = "done"
    /\ \E s, t \in Sessions : s # t /\ session_status[s] = session_status[t]
    /\ \E s \in Sessions : session_act[s] = "timeout"
    /\ \E s \in Sessions : session_status[s] = ONBOARD_SUCCESS

\* ------------------------------- claims, the rating-completion message

FinalsOf(tr) == {i \in DOMAIN tr : tr[i].ev = "act" /\ tr[i].act.final}

\* The party whose rating-completion message the events tr hold.
FinalSender(tr) == tr[CHOOSE i \in FinalsOf(tr) : TRUE].idx

\* C22: processing a rating-completion message appends no utterance, delivers
\* nothing and does not advance the turn counter: the call's events of its
\* sender are the message and at most one attachment, the counter at the end
\* of the call is the one the sender was solicited at, and over the call the
\* dialog, what the parties observed and the counter change only by what the
\* human's utterance before a bot's rating-completion contributes.  It sets
\* chat_done, which stays true, and changes the problem_data of at most one
\* utterance that existed before the call.
C22_RatingCompletionIsControlOnly ==
    /\ [](\A i \in Finals :
            /\ chat_done
            /\ task_turn_idx = trace[i].at
            /\ Cardinality(AttachedBy(i)) <= 1
            /\ \A e \in DOMAIN trace :
                  /\ trace[e].idx = trace[i].idx =>
                        trace[e].ev \notin {"append", "observe"}
                  /\ e > i => trace[e].ev = "attach" /\ trace[e].idx = trace[i].idx)
    /\ [][/\ chat_done =>
                chat_done' /\ UNCHANGED <<dialog, task_turn_idx, agent_obs, bot_obs>>
          /\ (task_turn_idx > 0 /\ trace' # trace /\ FinalsOf(trace') # {}) =>
                LET idx == FinalSender(trace')
                IN  /\ chat_done'
                    /\ Len(dialog') = Len(dialog) + idx
                    /\ \A k \in 1..Len(dialog) : SameUtterance(dialog'[k], dialog[k])
                    /\ Cardinality({k \in 1..Len(dialog) :
                          dialog'[k].problem_data # dialog[k].problem_data}) <= 1
                    /\ agent_obs' = agent_obs
                    /\ Len(bot_obs') = Len(bot_obs) + idx
                    /\ task_turn_idx' = task_turn_idx + idx]_vars

\* C22 witness: the world of a conversation that a rating-completion message
\* ended, with its payload attached, was shut down and saved.
C22_Witness ==
    /\ chat_shutdown /\ save_calls # <<>>
    /\ \E i \in Finals : AttachedBy(i) # {}

====
